---- MODULE Spec2Model ----
(***************************************************************************)
(* A model of the bloomfilter class of "bloom filter/BloomFilter/          *)
(* BloomFilter.py": the parameter derivation of __init__, the seeded hash  *)
(* family (mmh3.hash(str(x), seed) % m), the bit array, and the operations *)
(* __init__, __add__ (merge and single element), __call__ (bulk            *)
(* population), __contains__ and __len__.                                  *)
(*                                                                         *)
(* Objects live in two heaps: filters (the bloomfilter instances) and      *)
(* arrays (the bitarray objects they refer to), so that copy.deepcopy is   *)
(* an allocation of a filter and of a bitarray.  Floats are fixed-point    *)
(* integers: logarithms in units of 10^-8, bits-per-element in units of    *)
(* 10^-6.  An epsilon is a rational <<numerator, denominator>>.            *)
(***************************************************************************)
EXTENDS Integers, Sequences, FiniteSets, TLC

VARIABLES filters, arrays, ghost, last

vars == <<filters, arrays, ghost, last>>

(***************************************************************************)
(* Bounds of the model and the input sets the actions draw from.           *)
(***************************************************************************)
MaxFilters == 3
MaxSize == 3

Items == {1, 2}
Configs == {[n |-> 1, eps |-> <<1, 4>>, k |-> 0],
            [n |-> 2, eps |-> <<1, 4>>, k |-> 0],
            [n |-> 1, eps |-> <<1, 4>>, k |-> -1]}
SampleLists == {<<>>, <<2, 1, 1>>}

WideCapacities == {-1, 0, 1, 2, 3, 10, 1000}
WideEpsilons == {<<-1, 2>>, <<0, 1>>, <<1, 1000>>, <<1, 100>>, <<1, 10>>,
                 <<1, 4>>, <<1, 2>>, <<3, 4>>, <<1, 1>>, <<3, 2>>}
WideOverrides == {-2, -1, 0, 1, 3}
WideSampleLists == {<<>>, <<2, 1, 1>>}

(***************************************************************************)
(* Exceptions: the code raises InputException with one of five messages.   *)
(***************************************************************************)
NoErr == "none"
ErrN == "n should be positive"
ErrEps == "epsilon range should be (0, 1)"
ErrK == "bloom filters which have different hash functions cannot be added."
ErrM == "bloom filters which have different size cannot be added."
ErrPop == "Some elements have already been in this bloom filter."
IndexError == "IndexError: bitarray index out of range"

InvalidConfiguration == {ErrN, ErrEps}
IncompatibleFilter == {ErrK, ErrM}
AlreadyPopulated == {ErrPop}

(***************************************************************************)
(* Floating point, as fixed point.                                         *)
(***************************************************************************)
Micro == 10^6

\* math.log of 2, 3, 5 and 7, in units of 10^-8 (truncated).
Ln2E8 == 69314718
Ln3E8 == 109861228
Ln5E8 == 160943791
Ln7E8 == 194591014
\* (math.log(2)) ** 2 = 0.4804530139..., in units of 10^-8.
Ln2SqE8 == 48045301

\* math.log(x) for a positive integer x whose prime factors are 2, 3, 5, 7.
RECURSIVE LnE8(_)
LnE8(x) ==
  IF x = 1 THEN 0
  ELSE IF x % 2 = 0 THEN Ln2E8 + LnE8(x \div 2)
  ELSE IF x % 3 = 0 THEN Ln3E8 + LnE8(x \div 3)
  ELSE IF x % 5 = 0 THEN Ln5E8 + LnE8(x \div 5)
  ELSE Ln7E8 + LnE8(x \div 7)

\* math.log(epsilon) for epsilon = num/den, in units of 10^-8.
MathLog(eps) == LnE8(eps[1]) - LnE8(eps[2])

\* The first `digits` decimals of r / d, for 0 <= r < d.
RECURSIVE LongDiv(_, _, _)
LongDiv(r, d, digits) ==
  IF digits = 0 THEN 0
  ELSE ((r * 10) \div d) * 10^(digits - 1) + LongDiv((r * 10) % d, d, digits - 1)

\* l / d in units of 10^-6, for l >= 0 and d > 0 in the same unit.
DivMicro(l, d) == (l \div d) * Micro + LongDiv(l % d, d, 6)

\* x * y in units of 10^-6, for x, y >= 0 in units of 10^-6 and y < 1.
MulMicro(x, y) ==
  LET xi == x \div Micro
      xh == (x % Micro) \div 1000
      xl == x % 1000
  IN  xi * y + (xh * y) \div 1000 + (xl * y) \div Micro

\* math.ceil of a value in units of 10^-6.
CeilMicro(x) == IF x >= 0 THEN (x + Micro - 1) \div Micro ELSE -((-x) \div Micro)

(***************************************************************************)
(* Parameter derivation (__init__).                                        *)
(***************************************************************************)
\* epsilon <= 0 or epsilon >= 1
EpsilonOutOfRange(eps) == eps[1] <= 0 \/ eps[1] >= eps[2]

\* self.b = - math.log(epsilon) / (math.log(2)) ** 2, in units of 10^-6.
BitsPerElement(eps) == DivMicro(-MathLog(eps), Ln2SqE8)

\* math.ceil(self.b * math.log(2))
DerivedHashCount(b) == CeilMicro(MulMicro(b, Ln2E8 \div 100))

\* self.k = math.ceil(self.b * math.log(2)) if k==0 else k
HashCount(b, k) == IF k = 0 THEN DerivedHashCount(b) ELSE k

\* A slip: math.floor in place of math.ceil.
BitLengthFloor(n, b) == n * (b \div Micro) + (n * (b % Micro)) \div Micro

\* self.m = math.ceil(self.n * self.b)
BitLength(n, b) == n * (b \div Micro) + CeilMicro(n * (b % Micro))

(***************************************************************************)
(* The hash family: mmh3.hash(str(x), seed=seed) % m.                      *)
(***************************************************************************)
Digits == <<"0", "1", "2", "3", "4", "5", "6", "7", "8", "9">>

\* str(x) for a non-negative integer x.
RECURSIVE Str(_)
Str(x) == IF x < 10 THEN Digits[x + 1] ELSE Str(x \div 10) \o Digits[(x % 10) + 1]

\* MurmurHash3 (x86, 32 bit, signed) of the strings "1", "2", "3" under the
\* seeds 0..9.
Mmh3Table ==
  [s \in {"1", "2", "3"} |->
     CASE s = "1" -> <<-1810453357, -1570063170, 875522973, -126235597, -172315920,
                       -346150140, 885878885, -793765815, -356780833, -977649233>>
       [] s = "2" -> <<19522071, -497233321, -623552190, -303927213, -561241655,
                       1919884251, -73672499, 856283706, -683517425, -1370252329>>
       [] s = "3" -> <<264741300, 1849022499, 1695794743, -1151172406, -449130622,
                       1176859697, -883943078, 170839689, 2122586724, -751374734>>]

\* mmh3.hash(s, seed=seed)
Mmh3(s, seed) == Mmh3Table[s][seed + 1]

\* range(k): empty when k <= 0.
Range(k) == 0..(k - 1)

\* A slip: range(1, k) in place of range(k).
PositionsSkipSeed(item, k, m) == {Mmh3(Str(item), seed) % m : seed \in 1..(k - 1)}

\* The positions "for seed in range(k): mmh3.hash(str(item), seed=seed) % m" visits.
Positions(item, k, m) == {Mmh3(Str(item), seed) % m : seed \in Range(k)}

\* The positions of every sample of a list.
SamplePositions(samples, k, m) ==
  UNION {Positions(samples[j], k, m) : j \in 1..Len(samples)}

(***************************************************************************)
(* The bit array: a sequence of m bits, position p held at index p + 1.    *)
(***************************************************************************)
\* bitarray.bitarray('0' * m)
Zeros(m) == [i \in 1..m |-> 0]

\* bitarray[p] = 1 for every p of a set of positions.
SetBits(arr, ps) == [i \in 1..Len(arr) |-> IF (i - 1) \in ps THEN 1 ELSE arr[i]]

\* A slip: bitarray.all() in place of bitarray.any().
AllBits(arr) == \A i \in 1..Len(arr) : arr[i] = 1

\* bitarray.any()
AnyBit(arr) == \E i \in 1..Len(arr) : arr[i] = 1

\* A slip: ^= in place of |=.
XorBits(a, b, m) ==
  [i \in 1..Len(a) |-> IF i <= m THEN (a[i] + b[i]) % 2 ELSE a[i]]

\* for i in range(m): a[i] |= b[i]
OrBits(a, b, m) ==
  [i \in 1..Len(a) |-> IF i <= m /\ (a[i] = 1 \/ b[i] = 1) THEN 1 ELSE a[i]]

(***************************************************************************)
(* The heaps.  A filter is [n, b, k, m, bitarray, size], bitarray being    *)
(* the index in arrays of the filter's bit array.                          *)
(***************************************************************************)
\* self.__bitarray
BitsOf(fs, as, f) == as[fs[f].bitarray]

\* A slip: copy.copy(self), a new filter that shares the bit array of self.
ShallowCopy(fs, as, self) == [filters |-> Append(fs, fs[self]), arrays |-> as]

\* copy.deepcopy(self): a new filter with a new bit array of the same content.
DeepCopy(fs, as, self) ==
  [filters |-> Append(fs, [fs[self] EXCEPT !.bitarray = Len(as) + 1]),
   arrays  |-> Append(as, as[fs[self].bitarray])]

\* item in self
bf_contains(fs, as, self, item) ==
  \A seed \in Range(fs[self].k) :
     BitsOf(fs, as, self)[(Mmh3(Str(item), seed) % fs[self].m) + 1] # 0

\* len(self)
bf_len(fs, self) == fs[self].size

\* self.show()
bf_show(fs, as, self) == BitsOf(fs, as, self)

(***************************************************************************)
(* What the model remembers beside the program's state.  ghost, per        *)
(* filter: the items inserted into it (members), whether __init__ or       *)
(* __add__ made it (origin), the length of __init__'s samples (initlen),   *)
(* whether a __call__ on it has returned (called) and whether one has set  *)
(* a bit (popset).  last: the last call, its arguments and its outcome.    *)
(***************************************************************************)
NoCall ==
  [op |-> "none", self |-> 0, other |-> 0, item |-> 0, samples |-> <<>>,
   n |-> 0, eps |-> <<0, 1>>, k |-> 0, err |-> NoErr, ret |-> 0]

Elements(samples) == {samples[j] : j \in 1..Len(samples)}

Init ==
  /\ filters = <<>>
  /\ arrays = <<>>
  /\ ghost = <<>>
  /\ last = NoCall

(***************************************************************************)
(* __init__(self, n, samples, epsilon, k)                                  *)
(***************************************************************************)
\* A slip: n < 0 in place of n <= 0.
InitCheckStrict(n, eps) ==
  IF n < 0 THEN ErrN
  ELSE IF EpsilonOutOfRange(eps) THEN ErrEps
  ELSE NoErr

\* The input checks of __init__.
InitCheck(n, eps) ==
  IF n <= 0 THEN ErrN
  ELSE IF EpsilonOutOfRange(eps) THEN ErrEps
  ELSE NoErr

bf_init(n, samples, eps, k) ==
  LET err  == InitCheck(n, eps)
      call == [NoCall EXCEPT !.op = "init", !.n = n, !.samples = samples,
                             !.eps = eps, !.k = k]
  IN
  IF err # NoErr
  THEN /\ last' = [call EXCEPT !.err = err]
       /\ UNCHANGED <<filters, arrays, ghost>>
  ELSE LET b  == BitsPerElement(eps)
           kk == HashCount(b, k)
           m  == BitLength(n, b)
       IN /\ filters' = Append(filters,
                               [n |-> n, b |-> b, k |-> kk, m |-> m,
                                bitarray |-> Len(arrays) + 1,
                                size |-> Len(samples)])
          /\ arrays' = Append(arrays,
                              SetBits(Zeros(m), SamplePositions(samples, kk, m)))
          /\ ghost' = Append(ghost,
                             [members |-> Elements(samples), origin |-> "init",
                              initlen |-> Len(samples), called |-> FALSE,
                              popset |-> FALSE])
          /\ last' = [call EXCEPT !.ret = Len(filters) + 1]

(***************************************************************************)
(* __add__(self, other)                                                    *)
(***************************************************************************)
\* A slip: the check of m left out.
MergeCheckKOnly(fs, self, other) == IF fs[other].k # fs[self].k THEN ErrK ELSE NoErr

\* The input checks of the merge branch.
MergeCheck(fs, self, other) ==
  IF fs[other].k # fs[self].k THEN ErrK
  ELSE IF fs[other].m # fs[self].m THEN ErrM
  ELSE NoErr

\* A slip: the size of other left out.
MergeSizeOwn(a, b) == a

\* tmp.__size += other.__size
MergeSize(a, b) == a + b

\* other is a bloomfilter
bf_add_filter(self, other) ==
  LET err  == MergeCheck(filters, self, other)
      call == [NoCall EXCEPT !.op = "add_filter", !.self = self, !.other = other]
      h    == DeepCopy(filters, arrays, self)
      tmp  == Len(h.filters)
      ta   == h.filters[tmp].bitarray
  IN
  IF err # NoErr
  THEN /\ last' = [call EXCEPT !.err = err]
       /\ UNCHANGED <<filters, arrays, ghost>>
  ELSE IF h.filters[tmp].m > Len(BitsOf(filters, arrays, other))
  THEN \* other.__bitarray[i] is out of range: tmp is dropped
       /\ last' = [call EXCEPT !.err = IndexError]
       /\ UNCHANGED <<filters, arrays, ghost>>
  ELSE /\ filters' = [h.filters EXCEPT
                        ![tmp].size = MergeSize(@, h.filters[other].size)]
       /\ arrays' = [h.arrays EXCEPT
                        ![ta] = OrBits(@, h.arrays[h.filters[other].bitarray],
                                       h.filters[tmp].m)]
       /\ ghost' = Append(ghost,
                          [members |-> ghost[self].members \cup ghost[other].members,
                           origin |-> "add", initlen |-> 0, called |-> FALSE,
                           popset |-> FALSE])
       /\ last' = [call EXCEPT !.ret = tmp]

\* other is anything else: an element
bf_add_element(self, item) ==
  LET call == [NoCall EXCEPT !.op = "add_element", !.self = self, !.item = item]
      h    == DeepCopy(filters, arrays, self)
      tmp  == Len(h.filters)
      ta   == h.filters[tmp].bitarray
  IN
  /\ filters' = [h.filters EXCEPT ![tmp].size = @ + 1]
  /\ arrays' = [h.arrays EXCEPT
                  ![ta] = SetBits(@, Positions(item, h.filters[tmp].k,
                                               h.filters[tmp].m))]
  /\ ghost' = Append(ghost,
                     [members |-> ghost[self].members \cup {item},
                      origin |-> "add", initlen |-> 0, called |-> FALSE,
                      popset |-> FALSE])
  /\ last' = [call EXCEPT !.ret = tmp]

(***************************************************************************)
(* __call__(self, samples)                                                 *)
(***************************************************************************)
\* if self.__bitarray.any(): raise
CallCheck(fs, as, self) == IF AnyBit(BitsOf(fs, as, self)) THEN ErrPop ELSE NoErr

\* self.__size += len(samples)
CallSize(size, samples) == size + Len(samples)

bf_call(self, samples) ==
  LET err  == CallCheck(filters, arrays, self)
      call == [NoCall EXCEPT !.op = "call", !.self = self, !.samples = samples]
      ps   == SamplePositions(samples, filters[self].k, filters[self].m)
  IN
  IF err # NoErr
  THEN /\ last' = [call EXCEPT !.err = err]
       /\ UNCHANGED <<filters, arrays, ghost>>
  ELSE /\ CallSize(filters[self].size, samples) <= MaxSize
       /\ filters' = [filters EXCEPT ![self].size = CallSize(@, samples)]
       /\ arrays' = [arrays EXCEPT ![filters[self].bitarray] = SetBits(@, ps)]
       /\ ghost' = [ghost EXCEPT
                      ![self].members = @ \cup Elements(samples),
                      ![self].called = TRUE,
                      ![self].popset = @ \/ ps # {}]
       /\ last' = call

(***************************************************************************)
(* The program: any sequence of calls on the filters made so far.          *)
(***************************************************************************)
Refs == 1..Len(filters)

Construct ==
  \E c \in Configs, samples \in SampleLists :
     /\ Len(filters) < MaxFilters
     /\ bf_init(c.n, samples, c.eps, c.k)

Merge ==
  \E self \in Refs, other \in Refs :
     /\ Len(filters) < MaxFilters
     /\ bf_add_filter(self, other)

Insert ==
  \E self \in Refs, item \in Items :
     /\ Len(filters) < MaxFilters
     /\ bf_add_element(self, item)

Populate ==
  \E self \in Refs, samples \in SampleLists : bf_call(self, samples)

Next == Construct \/ Merge \/ Insert \/ Populate

Spec == Init /\ [][Next]_vars

\* One construction, over the wide ranges of n, epsilon and k.
ConstructWide ==
  \E n \in WideCapacities, samples \in WideSampleLists, eps \in WideEpsilons,
     k \in WideOverrides :
     /\ last = NoCall
     /\ bf_init(n, samples, eps, k)

SpecConstruct == Init /\ [][ConstructWide]_vars

(***************************************************************************)
(* Vocabulary of the properties.                                           *)
(***************************************************************************)
\* f is as it was before the step: its fields and the content of its bits.
Untouched(f) ==
  /\ filters'[f] = filters[f]
  /\ BitsOf(filters', arrays', f) = BitsOf(filters, arrays, f)

\* f was made by __init__ with no samples.
FreshEmpty(f) == ghost[f].origin = "init" /\ ghost[f].initlen = 0

RECURSIVE Pow2(_)
Pow2(e) == IF e <= 0 THEN 1 ELSE 2 * Pow2(e - 1)

(***************************************************************************)
(* C1.  No false negatives: every item inserted into a filter (by          *)
(* __init__, by + item, by a __call__ that returned, or into a filter it   *)
(* was merged from) is reported by __contains__.                           *)
(***************************************************************************)
NoFalseNegatives ==
  \A f \in Refs : \A x \in ghost[f].members : bf_contains(filters, arrays, f, x)

\* A merge of two filters that hold different items, with k > 0.
NoFalseNegativesWitness ==
  /\ last.op = "add_filter" /\ last.err = NoErr
  /\ last.self # last.other
  /\ filters[last.ret].k > 0
  /\ ghost[last.self].members # ghost[last.other].members
  /\ ghost[last.self].members # {} /\ ghost[last.other].members # {}
  /\ ghost[last.ret].members = Items

(***************************************************************************)
(* C2, as stated.  The first __call__ on a filter constructed empty        *)
(* returns and makes len() the number of samples; every later __call__ on  *)
(* that filter, with any list, raises.  Stated for the filters with k >= 1 *)
(* alone, where every sample sets a bit.                                   *)
(***************************************************************************)
PopulationGuardOriginal ==
  [][(last'.op = "call" /\ FreshEmpty(last'.self) /\ filters[last'.self].k >= 1) =>
       IF ~ghost[last'.self].called
       THEN /\ last'.err = NoErr
            /\ bf_len(filters', last'.self) = Len(last'.samples)
       ELSE last'.err \in AlreadyPopulated]_vars

(***************************************************************************)
(* C2, amended.  The first __call__ on a filter constructed empty returns  *)
(* and makes len() the number of samples; a later __call__ on that filter  *)
(* raises exactly when an earlier one has set a bit of it, and otherwise   *)
(* returns and adds the number of its samples to len().                    *)
(***************************************************************************)
PopulationGuard ==
  [][(last'.op = "call" /\ FreshEmpty(last'.self)) =>
       IF ~ghost[last'.self].called
       THEN /\ last'.err = NoErr
            /\ bf_len(filters', last'.self) = Len(last'.samples)
       ELSE /\ (last'.err \in AlreadyPopulated) <=> ghost[last'.self].popset
            /\ last'.err \notin AlreadyPopulated =>
                 /\ last'.err = NoErr
                 /\ bf_len(filters', last'.self) =
                      bf_len(filters, last'.self) + Len(last'.samples)]_vars

\* A second __call__, with the empty list, on a filter the first one filled: raised.
PopulationGuardWitness ==
  /\ last.op = "call" /\ last.err \in AlreadyPopulated
  /\ last.samples = <<>>
  /\ FreshEmpty(last.self)
  /\ ghost[last.self].called /\ ghost[last.self].popset
  /\ bf_len(filters, last.self) = 3

(***************************************************************************)
(* C3.  self + item leaves self (and every other filter) as it was and     *)
(* returns a new filter with the bits of self and the k positions of item  *)
(* set, len() one more, k and m those of self; and no step changes a       *)
(* filter other than a __call__ on that very filter.                       *)
(***************************************************************************)
InsertCopies ==
  [][/\ last'.op = "add_element" =>
          LET F == last'.self
              d == last'.ret
          IN  /\ d = Len(filters) + 1
              /\ Len(filters') = d
              /\ \A f \in Refs : Untouched(f)
              /\ BitsOf(filters', arrays', d) =
                   SetBits(BitsOf(filters, arrays, F),
                           Positions(last'.item, filters[F].k, filters[F].m))
              /\ bf_len(filters', d) = bf_len(filters, F) + 1
              /\ filters'[d].k = filters[F].k
              /\ filters'[d].m = filters[F].m
     /\ \A f \in Refs :
          \/ last'.op = "call" /\ last'.self = f
          \/ Untouched(f)]_vars

\* An insertion that set a bit which self does not have.
InsertCopiesWitness ==
  /\ last.op = "add_element"
  /\ BitsOf(filters, arrays, last.ret) # BitsOf(filters, arrays, last.self)
  /\ AnyBit(BitsOf(filters, arrays, last.self))
  /\ bf_len(filters, last.ret) = bf_len(filters, last.self) + 1

(***************************************************************************)
(* C4.  self + other, other a filter, raises when k or m differ, and then  *)
(* no filter and no bit array has changed; it returns a new filter when    *)
(* both are equal.                                                         *)
(***************************************************************************)
MergeCompatibility ==
  [][last'.op = "add_filter" =>
       LET a == last'.self
           b == last'.other
       IN  IF filters[a].k # filters[b].k \/ filters[a].m # filters[b].m
           THEN /\ last'.err \in IncompatibleFilter
                /\ filters' = filters
                /\ arrays' = arrays
           ELSE /\ last'.err = NoErr
                /\ last'.ret = Len(filters) + 1
                /\ Len(filters') = Len(filters) + 1]_vars

\* A merge refused for the bit length alone.
MergeCompatibilityWitness ==
  /\ last.op = "add_filter" /\ last.err \in IncompatibleFilter
  /\ filters[last.self].k = filters[last.other].k
  /\ filters[last.self].m # filters[last.other].m
  /\ AnyBit(BitsOf(filters, arrays, last.self))

(***************************************************************************)
(* C5.  A merge that returns gives a new filter whose bit i is the OR of   *)
(* the operands' bits i, for every i of 0..m-1, and whose len() is the sum *)
(* of theirs; the operands (the same filter twice included) are unchanged. *)
(* Hence the bits and the len() of a + b and of b + a are the same.        *)
(***************************************************************************)
MergeResult ==
  [][(last'.op = "add_filter" /\ last'.err = NoErr) =>
       LET a == last'.self
           b == last'.other
           r == last'.ret
       IN  /\ r = Len(filters) + 1
           /\ MergeCheck(filters, b, a) = NoErr
           /\ OrBits(BitsOf(filters, arrays, a), BitsOf(filters, arrays, b),
                     filters[a].m) =
                OrBits(BitsOf(filters, arrays, b), BitsOf(filters, arrays, a),
                       filters[b].m)
           /\ MergeSize(bf_len(filters, a), bf_len(filters, b)) =
                MergeSize(bf_len(filters, b), bf_len(filters, a))
           /\ Len(BitsOf(filters', arrays', r)) = filters[a].m
           /\ \A i \in 1..filters[a].m :
                BitsOf(filters', arrays', r)[i] = 1 <=>
                  (BitsOf(filters, arrays, a)[i] = 1 \/ BitsOf(filters, arrays, b)[i] = 1)
           /\ \A i \in 1..filters[a].m : BitsOf(filters', arrays', r)[i] \in {0, 1}
           /\ bf_len(filters', r) = bf_len(filters, a) + bf_len(filters, b)
           /\ \A f \in Refs : Untouched(f)]_vars

\* A merge of two filters with different bits and an item in common.
MergeResultWitness ==
  /\ last.op = "add_filter" /\ last.err = NoErr
  /\ last.self # last.other
  /\ BitsOf(filters, arrays, last.self) # BitsOf(filters, arrays, last.other)
  /\ AnyBit(BitsOf(filters, arrays, last.self))
  /\ AnyBit(BitsOf(filters, arrays, last.other))
  /\ ghost[last.self].members \cap ghost[last.other].members # {}
  /\ bf_len(filters, last.ret) > Cardinality(ghost[last.ret].members)

(***************************************************************************)
(* C6.  What __init__(n, epsilon) derives, k not given.  k is              *)
(* ceil(b ln 2), the least k with 2^k >= 1/epsilon; m is ceil(n b), the    *)
(* least m with m >= n b.  ExampleM is m for n = 1000, epsilon = 0.01.     *)
(***************************************************************************)
DerivationHolds(ExampleM) ==
  (last.op = "init" /\ last.err = NoErr /\ last.k = 0) =>
    LET f == filters[last.ret]
        d == f.m - last.n * (f.b \div Micro)
    IN  /\ f.n = last.n
        /\ Pow2(f.k) * last.eps[1] >= last.eps[2]
        /\ Pow2(f.k - 1) * last.eps[1] < last.eps[2]
        /\ last.n * (f.b % Micro) <= d * Micro
        /\ last.n * (f.b % Micro) > (d - 1) * Micro
        /\ (last.n = 1000 /\ last.eps = <<1, 100>>) =>
             /\ f.b \div 1000 = 9585
             /\ f.k = 7
             /\ f.m = ExampleM

\* C6, as stated: for n = 1000 and epsilon = 0.01, k = 7 and m = 9585.
ParameterDerivationOriginal == DerivationHolds(9585)

\* C6, amended: for n = 1000 and epsilon = 0.01, k = 7 and m = 9586.
ParameterDerivation == DerivationHolds(9586)

\* The example: __init__(n=1000, epsilon=0.01) has returned.
ParameterDerivationWitness ==
  /\ last.op = "init" /\ last.err = NoErr /\ last.k = 0
  /\ last.n = 1000 /\ last.eps = <<1, 100>>
  /\ Len(BitsOf(filters, arrays, last.ret)) = filters[last.ret].m

(***************************************************************************)
(* C7.  The k of a constructed filter is the k given when that is > 0 and  *)
(* the derived ceil(b ln 2) otherwise, so it is at least 1.                *)
(***************************************************************************)
HashCountSelection ==
  (last.op = "init" /\ last.err = NoErr) =>
    LET f == filters[last.ret]
    IN  /\ f.k = IF last.k > 0 THEN last.k ELSE DerivedHashCount(f.b)
        /\ f.k >= 1

(***************************************************************************)
(* C8.  __call__ raises exactly when a bit of the filter is set, so on     *)
(* every filter constructed with samples, whatever the list; when it       *)
(* raises, the filter is unchanged; otherwise it sets the k positions of   *)
(* every sample and adds their number to len().                            *)
(***************************************************************************)
PopulateGuardCondition ==
  [][last'.op = "call" =>
       LET f == last'.self
       IN  /\ (last'.err \in AlreadyPopulated) <=> AnyBit(BitsOf(filters, arrays, f))
           /\ (ghost[f].origin = "init" /\ ghost[f].initlen > 0) =>
                last'.err \in AlreadyPopulated
           /\ last'.err \in AlreadyPopulated =>
                /\ filters' = filters
                /\ arrays' = arrays
           /\ last'.err \notin AlreadyPopulated =>
                /\ last'.err = NoErr
                /\ BitsOf(filters', arrays', f) =
                     SetBits(BitsOf(filters, arrays, f),
                             SamplePositions(last'.samples, filters[f].k, filters[f].m))
                /\ bf_len(filters', f) = bf_len(filters, f) + Len(last'.samples)]_vars

(***************************************************************************)
(* C9.  A filter with len() = 0 has no bit set.                            *)
(***************************************************************************)
EmptyHasNoBits ==
  \A f \in Refs : bf_len(filters, f) = 0 => ~AnyBit(BitsOf(filters, arrays, f))

\* A merge that returned a filter of len() 0, beside a filter that has bits.
EmptyHasNoBitsWitness ==
  /\ last.op = "add_filter" /\ last.err = NoErr
  /\ bf_len(filters, last.ret) = 0
  /\ filters[last.ret].k > 0
  /\ \E g \in Refs : AnyBit(BitsOf(filters, arrays, g))

(***************************************************************************)
(* C10.  __init__ raises exactly when n <= 0 or epsilon <= 0 or            *)
(* epsilon >= 1, and then no filter and no bit array exists; otherwise it  *)
(* returns a filter of m bits, set exactly at the positions of the         *)
(* samples.                                                                *)
(***************************************************************************)
ConstructValidation ==
  last.op = "init" =>
    /\ (last.err \in InvalidConfiguration) <=>
         (last.n <= 0 \/ last.eps[1] <= 0 \/ last.eps[1] >= last.eps[2])
    /\ last.err \in InvalidConfiguration => filters = <<>> /\ arrays = <<>>
    /\ last.err \notin InvalidConfiguration =>
         /\ last.err = NoErr
         /\ Len(filters) = 1 /\ Len(arrays) = 1 /\ last.ret = 1
         /\ filters[1].m >= 1
         /\ Len(BitsOf(filters, arrays, 1)) = filters[1].m
         /\ bf_len(filters, 1) = Len(last.samples)
         /\ \A i \in 1..filters[1].m :
              BitsOf(filters, arrays, 1)[i] =
                IF \E j \in 1..Len(last.samples), seed \in 0..(filters[1].k - 1) :
                     Mmh3(Str(last.samples[j]), seed) % filters[1].m = i - 1
                THEN 1 ELSE 0

\* A refused construction whose n is fine and whose epsilon is exactly 1.
ConstructValidationWitness ==
  /\ last.op = "init" /\ last.err \in InvalidConfiguration
  /\ last.n > 0 /\ last.eps = <<1, 1>>
  /\ last.samples # <<>>
  /\ filters = <<>>

====
